---- MODULE Spec2Model ----
(***************************************************************************)
(* Model of the notification worker of src/src/index.ts: the BullMQ worker *)
(* (concurrency 5), its job processor, the two PDF generators, the browser *)
(* launch retry loop, and the SGPA computation of the result report.       *)
(*                                                                         *)
(* A job's processor is an async function: it runs until its next await    *)
(* and is resumed when the awaited collaborator call settles.  Each action *)
(* below is one such resumption: it takes the outcome of the pending call  *)
(* (success or a raised error) and runs the code up to the next await.     *)
(***************************************************************************)
EXTENDS Integers, Sequences, FiniteSets, TLC

VARIABLES
    jobs,          \* job id -> the job's processing state (record, see Job)
    handles,       \* browser handles launched and whose close() has not settled
    faultsLeft,    \* how many more collaborator calls may raise in this behaviour
    grades,        \* generateResultPdf: data.grades, a sequence of [credits, grade]
    gpc,           \* generateResultPdf: position in the GPA/credits computation
    gi,            \* generateResultPdf: index of the forEach iteration
    totalCredits,  \* generateResultPdf: let totalCredits
    earnedPoints,  \* generateResultPdf: let earnedPoints
    sgpa,          \* generateResultPdf: const sgpa (a string)
    point,         \* getGradeLetter: its argument, a number num / den
    letter,        \* getGradeLetter: its result ("" before the call)
    records,       \* generateAttendancePdf: data.records
    apc,           \* generateAttendancePdf: "idle", "forEach", "overall", "map", "done"
    ai,            \* generateAttendancePdf: entries visited by forEach, then by map
    totalAttended, \* generateAttendancePdf: let totalAttended
    totalClasses,  \* generateAttendancePdf: let totalClasses
    overallPercent,\* generateAttendancePdf: const overallPercent (a string)
    percents,      \* generateAttendancePdf: const percent of each row, in order
    semesterId,    \* generateResultPdf: data.semesterId (a sequence of characters)
    subjectCodes,  \* generateResultPdf: grades[k].subject.code of each entry
    tpc,           \* generateResultPdf title: "idle", "match", "infer", "compose", "done"
    yearStr,       \* generateResultPdf: let yearStr
    semStr,        \* generateResultPdf: let semStr
    titleText,     \* generateResultPdf: let titleText
    nodeEnv,       \* getExecutablePath: process.env.NODE_ENV
    envPath,       \* getExecutablePath: process.env.PUPPETEER_EXECUTABLE_PATH
    existing,      \* getExecutablePath: the paths fs.existsSync is true of
    xpc,           \* getExecutablePath: "idle", "call", "probe", "returned", "threw"
    xi,            \* getExecutablePath: paths probed by the for loop
    execPath,      \* getExecutablePath: the path returned ("" before)
    execErr        \* getExecutablePath: the error thrown (NoError before)

gpaVars == <<grades, gpc, gi, totalCredits, earnedPoints, sgpa>>
letterVars == <<point, letter>>
attVars == <<records, apc, ai, totalAttended, totalClasses, overallPercent, percents>>
titleVars == <<semesterId, subjectCodes, tpc, yearStr, semStr, titleText>>
execVars == <<nodeEnv, envPath, existing, xpc, xi, execPath, execErr>>
pureVars == <<letterVars, attVars, titleVars, execVars>>
vars == <<jobs, handles, faultsLeft, grades, gpc, gi, totalCredits, earnedPoints, sgpa,
          point, letter,
          records, apc, ai, totalAttended, totalClasses, overallPercent, percents,
          semesterId, subjectCodes, tpc, yearStr, semStr, titleText,
          nodeEnv, envPath, existing, xpc, xi, execPath, execErr>>

----------------------------------------------------------------------------
(* Bounds and program constants *)

\* Jobs in the queue of the detailed specification Spec.
NumJobs == 1
\* Jobs in the queue of the worker-pool specification SpecPool.
NumPoolJobs == 6
\* Collaborator failures injected in one behaviour of SpecPool.
PoolFaults == 1
\* Largest maxAttempts argument tried in SpecLaunch.
MaxRetriesArg == 4
\* Largest number of grade entries and largest credit of an entry in SpecGpa.
MaxGrades == 2
MaxCredit == 5
\* Denominator of the grade points tried in SpecLetter (steps of 1 / PointDen).
PointDen == 10
\* Longest data.records tried in SpecAttendance.
MaxRecords == 2
\* Longest semesterId and longest data.grades tried in SpecTitle.
MaxIdLen == 4
MaxTitleGrades == 2

\* Worker option concurrency: 5.
concurrency == 5
\* Default value of baseLaunchBrowser's parameter retries.
DefaultRetries == 3

----------------------------------------------------------------------------
(* Errors *)

NoError == [code |-> "", message |-> ""]

\* Errors puppeteer.launch can reject with: a spawn error carrying the code
\* ETXTBSY, a wrapped error whose message only mentions ETXTBSY, and an
\* unrelated spawn failure.
BusyCodeError == [code |-> "ETXTBSY", message |-> "spawn ETXTBSY"]
BusyMessageError ==
    [code |-> "", message |-> "Failed to launch the browser process: spawn ETXTBSY"]
OtherLaunchError == [code |-> "ENOENT", message |-> "spawn ENOENT"]
LaunchErrors == {BusyCodeError, BusyMessageError, OtherLaunchError}

NoBrowserFound ==
    [code |-> "", message |-> "Could not find a suitable browser for Puppeteer."]
FailedToLaunch == [code |-> "", message |-> "Failed to launch browser"]
NewPageError == [code |-> "", message |-> "newPage failed"]
SetContentError == [code |-> "", message |-> "setContent failed"]
PdfError == [code |-> "", message |-> "pdf failed"]
CloseError == [code |-> "", message |-> "close failed"]
SendError == [code |-> "", message |-> "sendMail failed"]

\* err.message.includes("ETXTBSY")
MessageIncludesETXTBSY(err) ==
    err.message \in {"spawn ETXTBSY",
                     "Failed to launch the browser process: spawn ETXTBSY"}

\* err.code === "ETXTBSY" || err.message.includes("ETXTBSY")
IsTransient(err) == err.code = "ETXTBSY" \/ MessageIncludesETXTBSY(err)

----------------------------------------------------------------------------
(* Jobs *)

\* RESULT_REPORT stands for any type string the processor does not handle.
JobTypes == {"EMAIL", "RESULTS", "ATTENDANCE_REPORT", "RESULT_REPORT"}
ReportTypes == {"RESULTS", "ATTENDANCE_REPORT"}

NoHandle == <<>>

\* No message passed to transporter.sendMail yet.
NoMail == <<>>

\* An optional field of job.data is <<>> when absent and <<value>> when
\* present.
Absent == <<>>

\* A job as added to the queue.  recipient, subject, body, html, semesterId
\* are fields of job.data; pc is the await the processor is suspended at; i,
\* browser are the locals of baseLaunchBrowser / generate*Pdf; err is the
\* error the processor threw; launchErr is the error of the last rejected
\* puppeteer.launch; mail is the last message passed to sendMail;
\* the remaining fields count collaborator calls and outcomes
\* (instrumentation).
Job(t, n) ==
    [type |-> t, retries |-> n, pc |-> "waiting", i |-> 0,
     recipient |-> "student@rguktong.ac.in", subject |-> "Notice",
     body |-> <<"Hello">>, html |-> Absent, semesterId |-> "E2S1",
     browser |-> NoHandle, pending |-> NoError, err |-> NoError,
     attempts |-> 0, launched |-> 0, transientFails |-> 0, fatalFails |-> 0,
     launchErr |-> NoError, renders |-> 0, renderErr |-> NoError, closes |-> 0, closeFails |-> 0,
     sendCalls |-> 0, sent |-> 0, attached |-> FALSE, mail |-> NoMail]

\* An EMAIL job with the given job.data.
EmailJob(to, subj, body, html) ==
    [Job("EMAIL", DefaultRetries) EXCEPT !.recipient = to, !.subject = subj,
                                         !.body = body, !.html = html]

\* The EMAIL jobs tried: two recipients and subjects, body absent or given,
\* html absent, empty or given.
EmailJobs ==
    {EmailJob(to, subj, body, html) :
        to \in {"student@rguktong.ac.in", "parent@example.org"},
        subj \in {"Notice", "Fee reminder"},
        body \in {Absent, <<"Hello">>},
        html \in {Absent, <<"">>, <<"<b>Hello</b>">>}}

JobIds == DOMAIN jobs

InFlight(j) == jobs[j].pc \notin {"waiting", "completed", "failed"}
InFlightJobs == {j \in JobIds : InFlight(j)}

\* A pending collaborator call may raise only while the behaviour's allowance
\* of failures is not used up.
MayFail == faultsLeft > 0

----------------------------------------------------------------------------
(* Worker: dequeue and dispatch *)

\* Variant of CanDequeue: the ceiling compared with <=.
CanDequeueOffByOne == Cardinality(InFlightJobs) <= concurrency

\* The worker fetches a new job only while fewer than `concurrency` jobs are
\* being processed.
CanDequeue == Cardinality(InFlightJobs) < concurrency

\* `${v}` of an optional field.
Interpolate(v) == IF v = Absent THEN "undefined" ELSE v[1]

\* Truthiness of an optional string field: present and not "".
Truthy(v) == v # Absent /\ v[1] # ""

\* emailTemplate(title, content), its fixed markup shortened.
emailTemplate(title, content) ==
    "<div><h1>UniZ Campus</h1><h2>" \o title \o "</h2><div>" \o content
    \o "</div><p>This is an automated email</p></div>"

\* Variant of EmailMessage: html ?? template, an empty html sent as it is.
EmailMessageNullish(r) ==
    [to |-> r.recipient, subject |-> r.subject,
     html |-> IF r.html # Absent THEN r.html[1]
              ELSE emailTemplate(r.subject, "<p>" \o Interpolate(r.body) \o "</p>"),
     attachments |-> 0]

\* The message of the EMAIL branch.
EmailMessage(r) ==
    [to |-> r.recipient, subject |-> r.subject,
     html |-> IF Truthy(r.html) THEN r.html[1]
              ELSE emailTemplate(r.subject, "<p>" \o Interpolate(r.body) \o "</p>"),
     attachments |-> 0]

\* The subject of a report branch's message.
ReportSubject(r) ==
    (IF r.type = "RESULTS" THEN "Result Declaration: " ELSE "Attendance Report: ")
    \o r.semesterId

\* The message of a report branch, its content shortened, with the PDF
\* buffer as its one attachment.
ReportMessage(r) ==
    [to |-> r.recipient, subject |-> ReportSubject(r),
     html |-> emailTemplate(ReportSubject(r),
                            "<p>Dear Student, <strong>" \o r.semesterId \o "</strong></p>"),
     attachments |-> 1]

\* Variant of Dispatch: a final else that rejects a type without a branch.
DispatchRejectsUnknown(r) ==
    IF r.type = "EMAIL"
    THEN [r EXCEPT !.pc = "send", !.sendCalls = @ + 1, !.mail = EmailMessage(r)]
    ELSE IF r.type \in ReportTypes
         THEN [r EXCEPT !.pc = "resolve"]
         ELSE [r EXCEPT !.pc = "threw",
                        !.err = [code |-> "", message |-> "Unknown job type"]]

\* The processor from its start to its first await: the type dispatch.
\* EMAIL calls transporter.sendMail; a report type calls its generator, which
\* composes the document and awaits baseLaunchBrowser, which awaits
\* getExecutablePath; any other type falls through every branch and returns.
Dispatch(r) ==
    IF r.type = "EMAIL"
    THEN [r EXCEPT !.pc = "send", !.sendCalls = @ + 1, !.mail = EmailMessage(r)]
    ELSE IF r.type \in ReportTypes
         THEN [r EXCEPT !.pc = "resolve"]
         ELSE [r EXCEPT !.pc = "returned"]

\* Jobs are taken in queue order: j is the first job still waiting.
Dequeue(j) ==
    /\ jobs[j].pc = "waiting"
    /\ \A k \in JobIds : k < j => jobs[k].pc # "waiting"
    /\ CanDequeue
    /\ jobs' = [jobs EXCEPT ![j] = Dispatch(@)]
    /\ UNCHANGED <<handles, faultsLeft, gpaVars, pureVars>>

----------------------------------------------------------------------------
(* generateResultPdf / generateAttendancePdf: try, catch, finally *)

\* Variant of GeneratorSettled: the processor's catch logs the error and does
\* not rethrow it.
GeneratorSettledSwallows(r, e) ==
    IF e = NoError
    THEN [r EXCEPT !.pc = "send", !.browser = NoHandle, !.pending = NoError,
                   !.sendCalls = @ + 1, !.attached = TRUE,
                   !.mail = ReportMessage(r)]
    ELSE [r EXCEPT !.pc = "returned", !.browser = NoHandle, !.pending = NoError,
                   !.err = e]

\* The generator has settled with error e (NoError: it returned the PDF
\* buffer).  Back in the processor's try block: on a buffer, sendMail is
\* called with the attachment; on an error, the catch logs and rethrows.
GeneratorSettled(r, e) ==
    IF e = NoError
    THEN [r EXCEPT !.pc = "send", !.browser = NoHandle, !.pending = NoError,
                   !.sendCalls = @ + 1, !.attached = TRUE,
                   !.mail = ReportMessage(r)]
    ELSE [r EXCEPT !.pc = "threw", !.browser = NoHandle, !.pending = NoError,
                   !.err = e]

\* Variants of Finally: release placed in the try block only (skipped when
\* the block throws), and release placed in the catch block only (skipped
\* when the block returns).
FinallySkipsCloseOnError(r, e) ==
    IF r.browser # NoHandle /\ e = NoError
    THEN [r EXCEPT !.pc = "close", !.pending = e, !.closes = @ + 1]
    ELSE GeneratorSettled(r, e)

FinallySkipsCloseOnReturn(r, e) ==
    IF r.browser # NoHandle /\ e # NoError
    THEN [r EXCEPT !.pc = "close", !.pending = e, !.closes = @ + 1]
    ELSE GeneratorSettled(r, e)

\* The try block is left with e (NoError: by `return Buffer.from(pdfBuffer)`,
\* otherwise by the catch's `throw error`).  finally: if (browser) await
\* browser.close().
Finally(r, e) ==
    IF r.browser # NoHandle
    THEN [r EXCEPT !.pc = "close", !.pending = e, !.closes = @ + 1]
    ELSE GeneratorSettled(r, e)

----------------------------------------------------------------------------
(* baseLaunchBrowser *)

\* Variant of LoopHead: the loop test stops one attempt early.
LoopHeadOffByOne(r) ==
    IF r.i < r.retries - 1
    THEN [r EXCEPT !.pc = "launch", !.attempts = @ + 1]
    ELSE Finally(r, FailedToLaunch)

\* The for loop's test `i < retries`: another puppeteer.launch call, or the
\* loop ends and baseLaunchBrowser returns undefined, on which the generator
\* throws "Failed to launch browser".
LoopHead(r) ==
    IF r.i < r.retries
    THEN [r EXCEPT !.pc = "launch", !.attempts = @ + 1]
    ELSE Finally(r, FailedToLaunch)

\* Variant of ShouldRetry: the bound of the loop test instead of the last
\* attempt's index.
ShouldRetryOffByOne(i, retries, err) == i < retries /\ IsTransient(err)

\* The catch's test: retry after 200ms, or rethrow.
ShouldRetry(i, retries, err) == i < retries - 1 /\ IsTransient(err)

\* Variant of NewHandle: a module-level browser reused while one is open.
SharedHandle(j) ==
    IF handles # {} THEN CHOOSE h \in handles : TRUE ELSE <<j, jobs[j].attempts>>

\* A handle is a fresh object: it is named by the job and launch attempt that
\* created it.
NewHandle(j) == <<j, jobs[j].attempts>>

ResolveOk(j) ==
    /\ jobs[j].pc = "resolve"
    /\ jobs' = [jobs EXCEPT ![j] = LoopHead([@ EXCEPT !.i = 0])]
    /\ UNCHANGED <<handles, faultsLeft, gpaVars, pureVars>>

\* Variant of ResolveFail: the missing executable is found out only by a
\* first puppeteer.launch call.
ResolveFailAtLaunch(j) ==
    /\ MayFail
    /\ jobs[j].pc = "resolve"
    /\ jobs' = [jobs EXCEPT ![j] =
                   Finally([@ EXCEPT !.attempts = @ + 1], NoBrowserFound)]
    /\ faultsLeft' = faultsLeft - 1
    /\ UNCHANGED <<handles, gpaVars, pureVars>>

\* getExecutablePath throws: no launch is attempted.
ResolveFail(j) ==
    /\ MayFail
    /\ jobs[j].pc = "resolve"
    /\ jobs' = [jobs EXCEPT ![j] = Finally(@, NoBrowserFound)]
    /\ faultsLeft' = faultsLeft - 1
    /\ UNCHANGED <<handles, gpaVars, pureVars>>

\* puppeteer.launch resolves: baseLaunchBrowser returns the handle, the
\* generator stores it in `browser` and calls browser.newPage().
LaunchOk(j) ==
    /\ jobs[j].pc = "launch"
    /\ jobs' = [jobs EXCEPT ![j] = [@ EXCEPT !.browser = NewHandle(j),
                                              !.launched = @ + 1,
                                              !.renders = @ + 1,
                                              !.pc = "newPage"]]
    /\ handles' = handles \cup {NewHandle(j)}
    /\ UNCHANGED <<faultsLeft, gpaVars, pureVars>>

\* Variant of LaunchFail: once the attempts are used up on transient errors,
\* an error of baseLaunchBrowser's own is thrown in place of the last one.
LaunchFailWraps(j) ==
    /\ MayFail
    /\ jobs[j].pc = "launch"
    /\ \E err \in LaunchErrors :
         LET r == IF IsTransient(err)
                  THEN [jobs[j] EXCEPT !.transientFails = @ + 1, !.launchErr = err]
                  ELSE [jobs[j] EXCEPT !.fatalFails = @ + 1, !.launchErr = err]
         IN  jobs' = [jobs EXCEPT ![j] =
                         IF ShouldRetry(r.i, r.retries, err)
                         THEN [r EXCEPT !.pc = "delay"]
                         ELSE IF IsTransient(err) THEN Finally(r, FailedToLaunch)
                         ELSE Finally(r, err)]
    /\ faultsLeft' = faultsLeft - 1
    /\ UNCHANGED <<handles, gpaVars, pureVars>>

\* puppeteer.launch rejects with err: the catch waits and retries, or
\* rethrows err itself.
LaunchFail(j) ==
    /\ MayFail
    /\ jobs[j].pc = "launch"
    /\ \E err \in LaunchErrors :
         LET r == IF IsTransient(err)
                  THEN [jobs[j] EXCEPT !.transientFails = @ + 1, !.launchErr = err]
                  ELSE [jobs[j] EXCEPT !.fatalFails = @ + 1, !.launchErr = err]
         IN  jobs' = [jobs EXCEPT ![j] =
                         IF ShouldRetry(r.i, r.retries, err)
                         THEN [r EXCEPT !.pc = "delay"]
                         ELSE Finally(r, err)]
    /\ faultsLeft' = faultsLeft - 1
    /\ UNCHANGED <<handles, gpaVars, pureVars>>

\* The 200ms timer fires: i++ and the loop test.
Delay(j) ==
    /\ jobs[j].pc = "delay"
    /\ jobs' = [jobs EXCEPT ![j] = LoopHead([@ EXCEPT !.i = @ + 1])]
    /\ UNCHANGED <<handles, faultsLeft, gpaVars, pureVars>>

----------------------------------------------------------------------------
(* render: newPage, setContent, pdf *)

RenderOk(j, at, next) ==
    /\ jobs[j].pc = at
    /\ jobs' = [jobs EXCEPT ![j] = [@ EXCEPT !.pc = next]]
    /\ UNCHANGED <<handles, faultsLeft, gpaVars, pureVars>>

RenderFail(j, at, err) ==
    /\ MayFail
    /\ jobs[j].pc = at
    /\ jobs' = [jobs EXCEPT ![j] = Finally([@ EXCEPT !.renderErr = err], err)]
    /\ faultsLeft' = faultsLeft - 1
    /\ UNCHANGED <<handles, gpaVars, pureVars>>

NewPageOk(j) == RenderOk(j, "newPage", "setContent")
NewPageFail(j) == RenderFail(j, "newPage", NewPageError)
SetContentOk(j) == RenderOk(j, "setContent", "pdf")
SetContentFail(j) == RenderFail(j, "setContent", SetContentError)

\* Variant of PdfOk: the message is sent from inside the try block, the
\* browser still open.
PdfOkSendsFirst(j) ==
    /\ jobs[j].pc = "pdf"
    /\ jobs' = [jobs EXCEPT ![j] = [@ EXCEPT !.pc = "send", !.sendCalls = @ + 1,
                                              !.attached = TRUE,
                                              !.mail = ReportMessage(jobs[j])]]
    /\ UNCHANGED <<handles, faultsLeft, gpaVars, pureVars>>

\* page.pdf resolves: return Buffer.from(pdfBuffer), through the finally.
PdfOk(j) ==
    /\ jobs[j].pc = "pdf"
    /\ jobs' = [jobs EXCEPT ![j] = Finally(@, NoError)]
    /\ UNCHANGED <<handles, faultsLeft, gpaVars, pureVars>>

PdfFail(j) == RenderFail(j, "pdf", PdfError)

----------------------------------------------------------------------------
(* release: browser.close() in the finally block *)

\* close resolves: the generator settles with what the try block left.
CloseOk(j) ==
    /\ jobs[j].pc = "close"
    /\ handles' = handles \ {jobs[j].browser}
    /\ jobs' = [jobs EXCEPT ![j] = GeneratorSettled(@, @.pending)]
    /\ UNCHANGED <<faultsLeft, gpaVars, pureVars>>

\* Variant of CloseFail: the rejection of close is caught and dropped.
CloseFailIgnored(j) ==
    /\ MayFail
    /\ jobs[j].pc = "close"
    /\ handles' = handles \ {jobs[j].browser}
    /\ jobs' = [jobs EXCEPT ![j] =
                   GeneratorSettled([@ EXCEPT !.closeFails = @ + 1], @.pending)]
    /\ faultsLeft' = faultsLeft - 1
    /\ UNCHANGED <<gpaVars, pureVars>>

\* close rejects: its error replaces whatever the try block left.  The handle
\* has been handed to close and is no longer held by the job.
CloseFail(j) ==
    /\ MayFail
    /\ jobs[j].pc = "close"
    /\ handles' = handles \ {jobs[j].browser}
    /\ jobs' = [jobs EXCEPT ![j] =
                   GeneratorSettled([@ EXCEPT !.closeFails = @ + 1], CloseError)]
    /\ faultsLeft' = faultsLeft - 1
    /\ UNCHANGED <<gpaVars, pureVars>>

----------------------------------------------------------------------------
(* send and the worker's completed / failed events *)

SendOk(j) ==
    /\ jobs[j].pc = "send"
    /\ jobs' = [jobs EXCEPT ![j] = [@ EXCEPT !.pc = "returned", !.sent = @ + 1]]
    /\ UNCHANGED <<handles, faultsLeft, gpaVars, pureVars>>

\* Variant of SendFail: the processor calls sendMail again after a rejection.
SendFailRetries(j) ==
    /\ MayFail
    /\ jobs[j].pc = "send"
    /\ jobs' = [jobs EXCEPT ![j] = [@ EXCEPT !.sendCalls = @ + 1]]
    /\ faultsLeft' = faultsLeft - 1
    /\ UNCHANGED <<handles, gpaVars, pureVars>>

\* sendMail rejects: a report branch's catch rethrows it, the EMAIL branch
\* lets it propagate.
SendFail(j) ==
    /\ MayFail
    /\ jobs[j].pc = "send"
    /\ jobs' = [jobs EXCEPT ![j] = [@ EXCEPT !.pc = "threw", !.err = SendError]]
    /\ faultsLeft' = faultsLeft - 1
    /\ UNCHANGED <<handles, gpaVars, pureVars>>

\* The processor's promise resolved: the job is moved to completed.
Completed(j) ==
    /\ jobs[j].pc = "returned"
    /\ jobs' = [jobs EXCEPT ![j] = [@ EXCEPT !.pc = "completed"]]
    /\ UNCHANGED <<handles, faultsLeft, gpaVars, pureVars>>

\* The processor's promise rejected: the job is moved to failed.
Failed(j) ==
    /\ jobs[j].pc = "threw"
    /\ jobs' = [jobs EXCEPT ![j] = [@ EXCEPT !.pc = "failed"]]
    /\ UNCHANGED <<handles, faultsLeft, gpaVars, pureVars>>

----------------------------------------------------------------------------
(* Specifications of the worker *)

GpaIdle ==
    /\ grades = <<>>
    /\ gpc = "idle"
    /\ gi = 0
    /\ totalCredits = 0
    /\ earnedPoints = 0
    /\ sgpa = ""

\* getGradeLetter not called.
LetterIdle ==
    /\ point = [num |-> 0, den |-> 1]
    /\ letter = ""

\* generateAttendancePdf not called.
AttendanceIdle ==
    /\ records = <<>>
    /\ apc = "idle"
    /\ ai = 0
    /\ totalAttended = 0
    /\ totalClasses = 0
    /\ overallPercent = ""
    /\ percents = <<>>

\* The title of generateResultPdf not derived.
TitleIdle ==
    /\ semesterId = <<>>
    /\ subjectCodes = <<>>
    /\ tpc = "idle"
    /\ yearStr = <<>>
    /\ semStr = <<>>
    /\ titleText = <<>>

\* getExecutablePath not called.
ExecIdle ==
    /\ nodeEnv = Absent
    /\ envPath = Absent
    /\ existing = {}
    /\ xpc = "idle"
    /\ xi = 0
    /\ execPath = ""
    /\ execErr = NoError

\* No job in the queue.
WorkerIdle ==
    /\ jobs = <<>>
    /\ handles = {}
    /\ faultsLeft = 0

Next ==
    \/ \E j \in JobIds : Dequeue(j)
    \/ \E j \in JobIds : ResolveOk(j)
    \/ \E j \in JobIds : ResolveFail(j)
    \/ \E j \in JobIds : LaunchOk(j)
    \/ \E j \in JobIds : LaunchFail(j)
    \/ \E j \in JobIds : Delay(j)
    \/ \E j \in JobIds : NewPageOk(j)
    \/ \E j \in JobIds : NewPageFail(j)
    \/ \E j \in JobIds : SetContentOk(j)
    \/ \E j \in JobIds : SetContentFail(j)
    \/ \E j \in JobIds : PdfOk(j)
    \/ \E j \in JobIds : PdfFail(j)
    \/ \E j \in JobIds : CloseOk(j)
    \/ \E j \in JobIds : CloseFail(j)
    \/ \E j \in JobIds : SendOk(j)
    \/ \E j \in JobIds : SendFail(j)
    \/ \E j \in JobIds : Completed(j)
    \/ \E j \in JobIds : Failed(j)

\* NumJobs jobs of any types, processed with every outcome of every
\* collaborator call.
Init ==
    /\ jobs \in [1 .. NumJobs -> {Job(t, DefaultRetries) : t \in JobTypes} \cup EmailJobs]
    /\ handles = {}
    /\ faultsLeft = NumJobs * (DefaultRetries + 2)
    /\ GpaIdle
    /\ LetterIdle
    /\ AttendanceIdle
    /\ TitleIdle
    /\ ExecIdle

Spec == Init /\ [][Next]_vars

\* The steps of job j once dequeued: a pending collaborator call (resolve,
\* launch, the 200ms timer, page operations, close, send) settles, or the
\* worker reports the settled processor.
JobStep(j) ==
    \/ ResolveOk(j) \/ ResolveFail(j)
    \/ LaunchOk(j) \/ LaunchFail(j) \/ Delay(j)
    \/ NewPageOk(j) \/ NewPageFail(j)
    \/ SetContentOk(j) \/ SetContentFail(j)
    \/ PdfOk(j) \/ PdfFail(j)
    \/ CloseOk(j) \/ CloseFail(j)
    \/ SendOk(j) \/ SendFail(j)
    \/ Completed(j) \/ Failed(j)

\* The worker when every pending call of every job returns or raises and
\* the worker takes waiting jobs while it has a free slot.
SpecFair ==
    /\ Spec
    /\ \A j \in 1 .. NumJobs : WF_vars(Dequeue(j)) /\ WF_vars(JobStep(j))

\* One report job whose launch is given any maxAttempts.
InitLaunch ==
    /\ jobs \in [1 .. 1 -> {Job(t, n) : t \in ReportTypes,
                                        n \in (0 - 1) .. MaxRetriesArg}]
    /\ handles = {}
    /\ faultsLeft = MaxRetriesArg + 2
    /\ GpaIdle
    /\ LetterIdle
    /\ AttendanceIdle
    /\ TitleIdle
    /\ ExecIdle

SpecLaunch == InitLaunch /\ [][Next]_vars

\* The worker pool: more jobs than the concurrency ceiling, of the types
\* PoolType gives them, with at most PoolFaults failing collaborator calls.
PoolType(j) ==
    CASE j = 1 -> "RESULTS"
      [] j = 3 -> "ATTENDANCE_REPORT"
      [] j = 5 -> "RESULT_REPORT"
      [] OTHER -> "EMAIL"

InitPool ==
    /\ jobs = [j \in 1 .. NumPoolJobs |-> Job(PoolType(j), DefaultRetries)]
    /\ handles = {}
    /\ faultsLeft = PoolFaults
    /\ GpaIdle
    /\ LetterIdle
    /\ AttendanceIdle
    /\ TitleIdle
    /\ ExecIdle

SpecPool == InitPool /\ [][Next]_vars

----------------------------------------------------------------------------
(* generateResultPdf: GPA / credits *)

\* Grade entries: integer credits >= 0, and the grade points of the scale
\* (fail 0, pass 5 .. 10) with one negative value.  Number() of a number is
\* that number.
Credits == 0 .. MaxCredit
GradePoints == {0 - 1, 0} \cup (5 .. 10)
GradeEntries == [credits : Credits, grade : GradePoints]

RECURSIVE SeqsUpTo(_, _)
SeqsUpTo(S, n) ==
    IF n = 0 THEN {<<>>}
    ELSE LET shorter == SeqsUpTo(S, n - 1)
         IN  shorter \cup {Append(q, x) : q \in {t \in shorter : Len(t) = n - 1}, x \in S}

Abs(x) == IF x < 0 THEN 0 - x ELSE x

\* Variant of ClampGradePoint: the grade point taken as it is.
UnclampedGradePoint(gradePoint) == gradePoint

\* gradePoint > 0 ? gradePoint : 0
ClampGradePoint(gradePoint) == IF gradePoint > 0 THEN gradePoint ELSE 0

\* One iteration of grades.forEach on entry g: the new <<totalCredits,
\* earnedPoints>>.
Accumulate(tc, ep, g) ==
    LET credit == g.credits
        gradePoint == g.grade
    IN  <<tc + credit,
          IF credit > 0 THEN ep + credit * ClampGradePoint(gradePoint) ELSE ep>>

\* Number.prototype.toFixed(2) of the quotient num / den >= 0: "let n be an
\* integer for which n / 10^2 - x is as close to zero as possible; if there
\* are two such n, pick the larger", then n's digits with a point before the
\* last two.  The quotient is taken exactly: for the integers of this model
\* the double is on the same side of every tie as num / den (a quotient on a
\* tie is an exact double there; the first total where it is not is 40
\* credits, where 3 / 40 is a double just below 0.075).
ToFixed2(num, den) ==
    LET lo == (100 * num) \div den
        n  == IF Abs((lo + 1) * den - 100 * num) <= Abs(lo * den - 100 * num)
              THEN lo + 1 ELSE lo
        frac == n % 100
    IN  ToString(n \div 100) \o "."
        \o (IF frac < 10 THEN "0" ELSE "") \o ToString(frac)

\* totalCredits > 0 ? (earnedPoints / totalCredits).toFixed(2) : "0.00"
Sgpa(tc, ep) == IF tc > 0 THEN ToFixed2(ep, tc) ELSE "0.00"

GpaForEach ==
    /\ gpc = "forEach"
    /\ gi < Len(grades)
    /\ LET acc == Accumulate(totalCredits, earnedPoints, grades[gi + 1])
       IN  /\ totalCredits' = acc[1]
           /\ earnedPoints' = acc[2]
    /\ gi' = gi + 1
    /\ UNCHANGED <<grades, gpc, sgpa, jobs, handles, faultsLeft, pureVars>>

GpaSgpa ==
    /\ gpc = "forEach"
    /\ gi = Len(grades)
    /\ sgpa' = Sgpa(totalCredits, earnedPoints)
    /\ gpc' = "done"
    /\ UNCHANGED <<grades, gi, totalCredits, earnedPoints, jobs, handles, faultsLeft, pureVars>>

GpaNext == GpaForEach \/ GpaSgpa

\* generateResultPdf called on any bounded sequence of grade entries.
InitGpa ==
    /\ grades \in SeqsUpTo(GradeEntries, MaxGrades)
    /\ gpc = "forEach"
    /\ gi = 0
    /\ totalCredits = 0
    /\ earnedPoints = 0
    /\ sgpa = ""
    /\ WorkerIdle
    /\ LetterIdle
    /\ AttendanceIdle
    /\ TitleIdle
    /\ ExecIdle

SpecGpa == InitGpa /\ [][GpaNext]_vars

----------------------------------------------------------------------------
(* generateResultPdf: getGradeLetter *)

\* point >= k for the number point = num / den and the integer k.
AtLeast(p, k) == p.num >= k * p.den

\* Variant of getGradeLetter: the top threshold compared with >.
getGradeLetterStrictTop(p) ==
    IF p.num > 10 * p.den THEN "EX"
    ELSE IF AtLeast(p, 9) THEN "A"
    ELSE IF AtLeast(p, 8) THEN "B"
    ELSE IF AtLeast(p, 7) THEN "C"
    ELSE IF AtLeast(p, 6) THEN "D"
    ELSE IF AtLeast(p, 5) THEN "E"
    ELSE "R"

getGradeLetter(p) ==
    IF AtLeast(p, 10) THEN "EX"
    ELSE IF AtLeast(p, 9) THEN "A"
    ELSE IF AtLeast(p, 8) THEN "B"
    ELSE IF AtLeast(p, 7) THEN "C"
    ELSE IF AtLeast(p, 6) THEN "D"
    ELSE IF AtLeast(p, 5) THEN "E"
    ELSE "R"

\* The rows' call getGradeLetter(g.grade).
LetterOfPoint ==
    /\ letter = ""
    /\ letter' = getGradeLetter(point)
    /\ UNCHANGED <<point, jobs, handles, faultsLeft, gpaVars, attVars, titleVars, execVars>>

LetterNext == LetterOfPoint

\* getGradeLetter called on any grade point from -1 to 11 in steps of
\* 1 / PointDen.
InitLetter ==
    /\ point \in [num : (0 - PointDen) .. (11 * PointDen), den : {PointDen}]
    /\ letter = ""
    /\ WorkerIdle
    /\ GpaIdle
    /\ AttendanceIdle
    /\ TitleIdle
    /\ ExecIdle

SpecLetter == InitLetter /\ [][LetterNext]_vars

----------------------------------------------------------------------------
(* generateAttendancePdf: totals and percentages *)

\* The class counts tried for attendedClasses and totalClasses: none, small
\* ones, 16 (a quotient on a rounding tie) and the 45 of 60 of the spec's
\* scenario.
ClassCounts == {0, 1, 3, 16, 45, 60}

AttendanceRecords == [attendedClasses : ClassCounts, totalClasses : ClassCounts]

\* Number.prototype.toFixed(1) of the number num / den (num >= 0, den > 0):
\* the integer n with n / 10 nearest to the number, the larger n on a tie,
\* written with one decimal.  Computed on the exact quotient: for the counts
\* of this model the double (a / t) * 100 is on the same side of every tie as
\* the quotient (the first count where it is not is t = 80).
ToFixed1(num, den) ==
    LET lo == (10 * num) \div den
        n  == IF Abs((lo + 1) * den - 10 * num) <= Abs(lo * den - 10 * num)
              THEN lo + 1 ELSE lo
    IN  ToString(n \div 10) \o "." \o ToString(n % 10)

\* totalClasses > 0 ? ((totalAttended / totalClasses) * 100).toFixed(2) : "0.00"
OverallPercent(attended, total) ==
    IF total > 0 THEN ToFixed2(100 * attended, total) ELSE "0.00"

\* Variant of RowPercent: the guard on totalClasses left out of the row.
RowPercentOfTotals(r) ==
    IF totalClasses > 0 THEN ToFixed1(100 * r.attendedClasses, totalClasses) ELSE "0.0"

\* r.totalClasses > 0 ? ((r.attendedClasses / r.totalClasses) * 100).toFixed(1) : "0.0"
RowPercent(r) ==
    IF r.totalClasses > 0 THEN ToFixed1(100 * r.attendedClasses, r.totalClasses) ELSE "0.0"

\* One call of the records.forEach callback.
AttForEach ==
    /\ apc = "forEach"
    /\ ai < Len(records)
    /\ totalAttended' = totalAttended + records[ai + 1].attendedClasses
    /\ totalClasses' = totalClasses + records[ai + 1].totalClasses
    /\ ai' = ai + 1
    /\ UNCHANGED <<records, apc, overallPercent, percents>>
    /\ UNCHANGED <<jobs, handles, faultsLeft, gpaVars, letterVars, titleVars, execVars>>

\* const overallPercent, after the last forEach callback.
AttOverall ==
    /\ apc = "forEach"
    /\ ai = Len(records)
    /\ overallPercent' = OverallPercent(totalAttended, totalClasses)
    /\ apc' = "map"
    /\ ai' = 0
    /\ UNCHANGED <<records, totalAttended, totalClasses, percents>>
    /\ UNCHANGED <<jobs, handles, faultsLeft, gpaVars, letterVars, titleVars, execVars>>

\* One call of the records.map callback: the percent of a row.
AttMap ==
    /\ apc = "map"
    /\ ai < Len(records)
    /\ percents' = Append(percents, RowPercent(records[ai + 1]))
    /\ ai' = ai + 1
    /\ UNCHANGED <<records, apc, totalAttended, totalClasses, overallPercent>>
    /\ UNCHANGED <<jobs, handles, faultsLeft, gpaVars, letterVars, titleVars, execVars>>

\* The rows joined: the percentages are those of the document.
AttJoin ==
    /\ apc = "map"
    /\ ai = Len(records)
    /\ apc' = "done"
    /\ UNCHANGED <<records, ai, totalAttended, totalClasses, overallPercent, percents>>
    /\ UNCHANGED <<jobs, handles, faultsLeft, gpaVars, letterVars, titleVars, execVars>>

AttNext ==
    \/ AttForEach
    \/ AttOverall
    \/ AttMap
    \/ AttJoin

\* generateAttendancePdf called on any sequence of up to MaxRecords records.
InitAttendance ==
    /\ records \in SeqsUpTo(AttendanceRecords, MaxRecords)
    /\ apc = "forEach"
    /\ ai = 0
    /\ totalAttended = 0
    /\ totalClasses = 0
    /\ overallPercent = ""
    /\ percents = <<>>
    /\ WorkerIdle
    /\ GpaIdle
    /\ LetterIdle
    /\ TitleIdle
    /\ ExecIdle

SpecAttendance == InitAttendance /\ [][AttNext]_vars

----------------------------------------------------------------------------
(* generateResultPdf: title *)

(* Strings are sequences of one-character strings, so that the regular
   expressions and toUpperCase act on characters. *)

LowerCase == <<"a", "b", "c", "d", "e", "f", "g", "h", "i", "j", "k", "l", "m",
               "n", "o", "p", "q", "r", "s", "t", "u", "v", "w", "x", "y", "z">>
UpperCase == <<"A", "B", "C", "D", "E", "F", "G", "H", "I", "J", "K", "L", "M",
               "N", "O", "P", "Q", "R", "S", "T", "U", "V", "W", "X", "Y", "Z">>

\* String.prototype.toUpperCase on one character.
ToUpperChar(c) ==
    IF \E i \in 1 .. 26 : LowerCase[i] = c
    THEN UpperCase[CHOOSE i \in 1 .. 26 : LowerCase[i] = c]
    ELSE c

\* String.prototype.toUpperCase.
ToUpperCase(str) == [k \in 1 .. Len(str) |-> ToUpperChar(str[k])]

\* [a-zA-Z]
IsLetter(c) == \E i \in 1 .. 26 : c = LowerCase[i] \/ c = UpperCase[i]

\* [-_ ]
Separators == {"-", "_", " "}

\* [1-4] and [1-3]
YearDigits == {"1", "2", "3", "4"}
SemDigits == {"1", "2", "3"}

\* The character of str at position k, "" past its end.
CharAt(str, k) == IF k \in 1 .. Len(str) THEN str[k] ELSE ""

\* [-_ ]?([digits]) matched at position k: the position of the digit, 0 when
\* there is no match.
DigitAfterSeparator(str, k, digits) ==
    IF CharAt(str, k) \in Separators /\ CharAt(str, k + 1) \in digits THEN k + 1
    ELSE IF CharAt(str, k) \in digits THEN k
    ELSE 0

\* The word (in upper case) matched at position k, ignoring case.
WordAt(str, k, word) ==
    \A i \in 1 .. Len(word) : ToUpperChar(CharAt(str, k + i - 1)) = word[i]

\* /([EP])[-_ ]?([1-4])/i tried at position p: the position of the digit.
YearMatchAt(str, p) ==
    IF ToUpperChar(CharAt(str, p)) \in {"E", "P"}
    THEN DigitAfterSeparator(str, p + 1, YearDigits)
    ELSE 0

\* /S(?:em(?:ester)?)?[-_ ]?([1-3])/i tried at position p: the position of
\* the digit; the longer alternative is tried first.
SemMatchAt(str, p) ==
    IF ToUpperChar(CharAt(str, p)) # "S" THEN 0
    ELSE LET long  == IF WordAt(str, p + 1, <<"E", "M", "E", "S", "T", "E", "R">>)
                      THEN DigitAfterSeparator(str, p + 8, SemDigits) ELSE 0
             mid   == IF WordAt(str, p + 1, <<"E", "M">>)
                      THEN DigitAfterSeparator(str, p + 3, SemDigits) ELSE 0
             short == DigitAfterSeparator(str, p + 1, SemDigits)
         IN  IF long # 0 THEN long ELSE IF mid # 0 THEN mid ELSE short

\* The least element of a non-empty set of positions.
Leftmost(ps) == CHOOSE p \in ps : \A q \in ps : p <= q

\* yearMatch and yearStr: "" or, from the leftmost match, the letter in upper
\* case and the digit.
YearOfId(str) ==
    LET ps == {p \in 1 .. Len(str) : YearMatchAt(str, p) # 0}
    IN  IF ps = {} THEN <<>>
        ELSE <<ToUpperChar(str[Leftmost(ps)]), str[YearMatchAt(str, Leftmost(ps))]>>

\* semMatch and semStr: "" or the digit of the leftmost match.
SemOfId(str) ==
    LET ps == {p \in 1 .. Len(str) : SemMatchAt(str, p) # 0}
    IN  IF ps = {} THEN <<>> ELSE <<str[SemMatchAt(str, Leftmost(ps))]>>

\* The number of letters str begins with.
RECURSIVE LetterRun(_)
LetterRun(str) ==
    IF str # <<>> /\ IsLetter(Head(str)) THEN 1 + LetterRun(Tail(str)) ELSE 0

\* code.match(/^[a-zA-Z]+[-_ ]?([1-4])/): the position of the digit, 0 when
\* there is no match.  What follows the letters is not a letter, so only
\* the whole run of leading letters can match.
CodeMatch(code) ==
    IF LetterRun(code) = 0 THEN 0
    ELSE DigitAfterSeparator(code, LetterRun(code) + 1, YearDigits)

\* Variant of InferYear: the first entry whose code matches, wherever it is.
InferYearFromAny(codes) ==
    LET ks == {k \in 1 .. Len(codes) : codes[k] # <<>> /\ CodeMatch(codes[k]) # 0}
        k1 == CHOOSE k \in ks : \A q \in ks : k <= q
    IN  IF ks = {} THEN <<>> ELSE <<"E", codes[k1][CodeMatch(codes[k1])]>>

\* The fallback: grades.length > 0 && grades[0].subject.code, then codeMatch
\* on grades[0].subject.code and yearStr = `E${codeMatch[1]}`.
InferYear(codes) ==
    IF Len(codes) > 0 /\ codes[1] # <<>> /\ CodeMatch(codes[1]) # 0
    THEN <<"E", codes[1][CodeMatch(codes[1])]>>
    ELSE <<>>

Semester == <<" ", "S", "E", "M", "E", "S", "T", "E", "R", "-">>
Results == <<" ", "R", "E", "S", "U", "L", "T", "S">>

\* String.prototype.replace(pattern, replacement) with a string pattern: the
\* first occurrence replaced.
Replace(str, pattern, replacement) ==
    LET ps == {p \in 1 .. (Len(str) - Len(pattern) + 1) :
                  SubSeq(str, p, p + Len(pattern) - 1) = pattern}
        p1 == CHOOSE p \in ps : \A q \in ps : p <= q
    IN  IF ps = {} THEN str
        ELSE SubSeq(str, 1, p1 - 1) \o replacement
             \o SubSeq(str, p1 + Len(pattern), Len(str))

\* if (yearStr && semStr) ... else ...
Title(id, year, sem) ==
    IF year # <<>> /\ sem # <<>>
    THEN year \o Semester \o sem \o Results
    ELSE Replace(ToUpperCase(id) \o Results, Results \o Results, Results)

\* yearMatch and semMatch on semesterId.
TitleMatch ==
    /\ tpc = "match"
    /\ yearStr' = YearOfId(semesterId)
    /\ semStr' = SemOfId(semesterId)
    /\ tpc' = "infer"
    /\ UNCHANGED <<semesterId, subjectCodes, titleText>>
    /\ UNCHANGED <<jobs, handles, faultsLeft, gpaVars, letterVars, attVars, execVars>>

\* if (!yearStr && grades.length > 0 && ...) { codeMatch ... }
TitleInfer ==
    /\ tpc = "infer"
    /\ yearStr' = IF yearStr = <<>> THEN InferYear(subjectCodes) ELSE yearStr
    /\ tpc' = "compose"
    /\ UNCHANGED <<semesterId, subjectCodes, semStr, titleText>>
    /\ UNCHANGED <<jobs, handles, faultsLeft, gpaVars, letterVars, attVars, execVars>>

\* The title composed or the fallback.
TitleCompose ==
    /\ tpc = "compose"
    /\ titleText' = Title(semesterId, yearStr, semStr)
    /\ tpc' = "done"
    /\ UNCHANGED <<semesterId, subjectCodes, yearStr, semStr>>
    /\ UNCHANGED <<jobs, handles, faultsLeft, gpaVars, letterVars, attVars, execVars>>

TitleNext ==
    \/ TitleMatch
    \/ TitleInfer
    \/ TitleCompose

\* The characters a semesterId is made of here: S, e and m for the patterns
\* (e also a year letter once in upper case), a separator, a digit of both
\* classes and one of the year class only.
IdChars == {"S", "e", "m", "-", "2", "4"}

\* The subject codes tried: none, letters then digit, letters then separator
\* then digit, and letters then a digit outside 1-4.
SubjectCodes == {<<>>, <<"C", "S", "2", "1">>, <<"m", "-", "3">>, <<"X", "5">>}

RECURSIVE StringsUpTo(_, _)
StringsUpTo(chars, n) ==
    IF n = 0 THEN {<<>>}
    ELSE LET shorter == StringsUpTo(chars, n - 1)
         IN  shorter \cup {Append(q, c) : q \in {t \in shorter : Len(t) = n - 1},
                                              c \in chars}

\* The title derived for any semesterId of up to MaxIdLen characters and any
\* sequence of up to MaxTitleGrades subject codes.
InitTitle ==
    /\ semesterId \in StringsUpTo(IdChars, MaxIdLen)
    /\ subjectCodes \in StringsUpTo(SubjectCodes, MaxTitleGrades)
    /\ tpc = "match"
    /\ yearStr = <<>>
    /\ semStr = <<>>
    /\ titleText = <<>>
    /\ WorkerIdle
    /\ GpaIdle
    /\ LetterIdle
    /\ AttendanceIdle
    /\ ExecIdle

SpecTitle == InitTitle /\ [][TitleNext]_vars

----------------------------------------------------------------------------
(* getExecutablePath *)

\* const paths
paths ==
    <<"/Applications/Google Chrome.app/Contents/MacOS/Google Chrome",
      "/Applications/Brave Browser.app/Contents/MacOS/Brave Browser",
      "/Applications/Microsoft Edge.app/Contents/MacOS/Microsoft Edge",
      "/usr/bin/google-chrome">>

\* What chromium.executablePath() resolves to.
BundledPath == "/tmp/chromium"

\* A path outside the list, for the override.
CustomPath == "/opt/chrome/chrome"

\* Variant of ExecStart: the override is returned only if it exists.
ExecStartChecksOverride ==
    /\ xpc = "call"
    /\ IF nodeEnv = <<"production">>
       THEN xpc' = "returned" /\ execPath' = BundledPath
       ELSE IF Truthy(envPath) /\ envPath[1] \in existing
            THEN xpc' = "returned" /\ execPath' = envPath[1]
            ELSE xpc' = "probe" /\ execPath' = execPath
    /\ UNCHANGED <<nodeEnv, envPath, existing, xi, execErr>>
    /\ UNCHANGED <<jobs, handles, faultsLeft, gpaVars, letterVars, attVars, titleVars>>

\* The call up to the for loop: the bundled binary in production, else the
\* override when it is set, else the loop over paths.
ExecStart ==
    /\ xpc = "call"
    /\ IF nodeEnv = <<"production">>
       THEN xpc' = "returned" /\ execPath' = BundledPath
       ELSE IF Truthy(envPath)
            THEN xpc' = "returned" /\ execPath' = envPath[1]
            ELSE xpc' = "probe" /\ execPath' = execPath
    /\ UNCHANGED <<nodeEnv, envPath, existing, xi, execErr>>
    /\ UNCHANGED <<jobs, handles, faultsLeft, gpaVars, letterVars, attVars, titleVars>>

\* One iteration of the loop: if (fs.existsSync(path)) return path.
ExecProbe ==
    /\ xpc = "probe"
    /\ xi < Len(paths)
    /\ IF paths[xi + 1] \in existing
       THEN xpc' = "returned" /\ execPath' = paths[xi + 1] /\ xi' = xi
       ELSE xpc' = xpc /\ execPath' = execPath /\ xi' = xi + 1
    /\ UNCHANGED <<nodeEnv, envPath, existing, execErr>>
    /\ UNCHANGED <<jobs, handles, faultsLeft, gpaVars, letterVars, attVars, titleVars>>

\* The loop ended: throw new Error("Could not find a suitable browser ...").
ExecThrow ==
    /\ xpc = "probe"
    /\ xi = Len(paths)
    /\ xpc' = "threw"
    /\ execErr' = NoBrowserFound
    /\ UNCHANGED <<nodeEnv, envPath, existing, xi, execPath>>
    /\ UNCHANGED <<jobs, handles, faultsLeft, gpaVars, letterVars, attVars, titleVars>>

ExecNext ==
    \/ ExecStart
    \/ ExecProbe
    \/ ExecThrow

\* getExecutablePath called with NODE_ENV unset, "development" or
\* "production", the override unset, empty, a listed path or a path outside
\* the list, and any set of these paths existing.
InitExec ==
    /\ nodeEnv \in {Absent, <<"development">>, <<"production">>}
    /\ envPath \in {Absent, <<"">>, <<paths[4]>>, <<CustomPath>>}
    /\ existing \in SUBSET ({paths[k] : k \in 1 .. Len(paths)} \cup {CustomPath})
    /\ xpc = "call"
    /\ xi = 0
    /\ execPath = ""
    /\ execErr = NoError
    /\ WorkerIdle
    /\ GpaIdle
    /\ LetterIdle
    /\ AttendanceIdle
    /\ TitleIdle

SpecExec == InitExec /\ [][ExecNext]_vars

----------------------------------------------------------------------------
(* Properties of the worker *)

Reports == {j \in JobIds : jobs[j].type \in ReportTypes}

\* The generator called for job record r has settled (returned or thrown).
GeneratorExited(r) == r.pc \in {"send", "returned", "threw", "completed", "failed"}

\* C1: in either report generator, whatever launch, newPage, setContent and
\* pdf do, browser.close is called once if a launch succeeded and never if
\* none did: at no time more closes than successful launches, at most one
\* successful launch, and as many closes as launches once the generator has
\* exited.
C1_ReleaseOncePerLaunch ==
    \A j \in Reports :
        LET r == jobs[j]
        IN  /\ r.launched <= 1
            /\ r.closes <= r.launched
            /\ GeneratorExited(r) => r.closes = r.launched

\* A generator that exited by a throw of page.pdf after its one successful
\* launch, which followed a failed attempt, with its one close made.
C1_Witness ==
    \E j \in Reports :
        /\ GeneratorExited(jobs[j])
        /\ jobs[j].attempts = 2 /\ jobs[j].launched = 1
        /\ jobs[j].renderErr = PdfError /\ jobs[j].closes = 1

Settled(r) == r.pc \in {"threw", "failed"}

\* C2: with maxAttempts = N >= 1, launch is attempted at most N times; a
\* non-transient failure ends launch at once with that error, on the attempt it
\* occurred at; N transient failures end launch with the transient error, and
\* launch does not fail on a transient error before its N-th attempt.
C2_LaunchRetryBound ==
    \A j \in JobIds :
        LET r == jobs[j]
        IN  r.retries >= 1 =>
              /\ r.attempts <= r.retries
              /\ r.fatalFails > 0 =>
                    /\ Settled(r)
                    /\ r.err \in LaunchErrors /\ ~IsTransient(r.err)
                    /\ r.fatalFails = 1
                    /\ r.attempts = r.transientFails + 1
                    /\ r.launched = 0
              /\ r.transientFails = r.retries =>
                    /\ Settled(r)
                    /\ r.err \in LaunchErrors /\ IsTransient(r.err)
                    /\ r.attempts = r.retries
              /\ (Settled(r) /\ r.err \in LaunchErrors /\ IsTransient(r.err)) =>
                    r.transientFails = r.retries

\* A launch given more attempts than the default that used them all on
\* transient failures and failed.
C2_Witness ==
    \E j \in JobIds :
        /\ jobs[j].retries > DefaultRetries
        /\ jobs[j].transientFails = jobs[j].retries
        /\ jobs[j].attempts = jobs[j].retries
        /\ jobs[j].pc = "failed"

\* C3: a report job (maxAttempts = 3) whose launch succeeded after k
\* transient failures and whose send succeeded is never reported failed, made
\* exactly k + 1 <= 3 launch attempts, made exactly one close and sent exactly
\* one message; a job whose launch succeeded and whose render, close and send
\* did not raise has not thrown.
C3_RetryThenComplete ==
    \A j \in Reports :
        LET r == jobs[j]
        IN  /\ (r.launched = 1 /\ r.sent >= 1) =>
                  /\ r.pc \in {"returned", "completed"}
                  /\ r.renderErr = NoError
                  /\ r.attempts = r.transientFails + 1
                  /\ r.attempts <= DefaultRetries
                  /\ r.closes = 1
                  /\ r.sendCalls = 1 /\ r.sent = 1
            /\ (r.launched = 1 /\ r.renderErr = NoError /\ r.closeFails = 0
                  /\ r.err # SendError) => ~Settled(r)

\* Scenario D: two transient failures, success on the third attempt, job
\* completed.
C3_Witness ==
    \E j \in Reports :
        /\ jobs[j].pc = "completed"
        /\ jobs[j].transientFails = 2 /\ jobs[j].attempts = 3
        /\ jobs[j].closes = 1 /\ jobs[j].sent = 1

\* Rendering failed for job record r: executable resolution, launch, a page
\* operation or the PDF export raised.
RenderingFailed(r) ==
    \/ r.err = NoBrowserFound
    \/ r.fatalFails > 0
    \/ r.transientFails = r.retries
    \/ r.renderErr # NoError

\* C4: every job acknowledged complete sent exactly one message, and a job
\* whose rendering failed sent none.
C4_OneMessagePerSuccess ==
    \A j \in JobIds :
        LET r == jobs[j]
        IN  /\ r.pc = "completed" => (r.sendCalls = 1 /\ r.sent = 1)
            /\ RenderingFailed(r) => (r.sendCalls = 0 /\ r.sent = 0)

\* Every step of the processing of job record r succeeded: for a report job
\* launch, render, release and the send with the PDF attached; for an EMAIL
\* job the send; a job of another type has no step.
StepsSucceeded(r) ==
    /\ r.err = NoError
    /\ r.type \in ReportTypes =>
          /\ r.launched = 1 /\ r.fatalFails = 0
          /\ r.renderErr = NoError
          /\ r.closes = 1 /\ r.closeFails = 0
          /\ r.sendCalls = 1 /\ r.sent = 1 /\ r.attached
    /\ r.type = "EMAIL" => (r.sendCalls = 1 /\ r.sent = 1 /\ ~r.attached)

\* A step of the processing of job record r raised.
StepRaised(r) ==
    \/ RenderingFailed(r)
    \/ r.closeFails > 0
    \/ r.err \in {FailedToLaunch, SendError}

\* C5: a job is reported completed only if every step succeeded and reported
\* failed only if a step raised (with that step's error); once a step has
\* raised the job is never completed: it is releasing its handle, has thrown
\* or is reported failed.
C5_CompletedIffAllStepsSucceeded ==
    \A j \in JobIds :
        LET r == jobs[j]
        IN  /\ r.pc \in {"returned", "completed"} => (StepsSucceeded(r) /\ ~StepRaised(r))
            /\ r.pc \in {"threw", "failed"} => (StepRaised(r) /\ r.err # NoError)
            /\ StepRaised(r) => r.pc \in {"close", "threw", "failed"}

\* A report job reported failed because its send raised after launch, render
\* and release succeeded.
C5_Witness ==
    \E j \in Reports :
        /\ jobs[j].pc = "failed" /\ jobs[j].err = SendError
        /\ jobs[j].launched = 1 /\ jobs[j].closes = 1 /\ jobs[j].attached

\* C8: when newPage, setContent or pdf raised, close has been called before
\* the job threw, the job never sends or completes, and the error the
\* processor threw is that render error.
C8_RenderErrorReleasedAndRaised ==
    \A j \in Reports :
        LET r == jobs[j]
        IN  r.renderErr # NoError =>
              /\ r.pc \in {"close", "threw", "failed"}
              /\ r.closes = 1
              /\ Settled(r) =>
                    /\ \A h \in handles : h[1] # j
                    /\ r.err = r.renderErr

\* C9: when getExecutablePath throws, whatever maxAttempts is, no launch
\* attempt, retry or wait is made, no handle is acquired or closed, nothing is
\* sent, and the job throws.
C9_NoBrowserNoAttempt ==
    \A j \in JobIds :
        LET r == jobs[j]
        IN  r.err = NoBrowserFound =>
              /\ Settled(r)
              /\ r.attempts = 0 /\ r.i = 0
              /\ r.transientFails = 0 /\ r.fatalFails = 0
              /\ r.launched = 0 /\ r.closes = 0
              /\ r.sendCalls = 0 /\ r.sent = 0
              /\ \A h \in handles : h[1] # j

\* A job given the largest maxAttempts reported failed with NoBrowserFound.
C9_Witness ==
    \E j \in JobIds :
        /\ jobs[j].retries = MaxRetriesArg
        /\ jobs[j].err = NoBrowserFound
        /\ jobs[j].pc = "failed"

\* C6: at most `concurrency` = 5 jobs are dequeued and not yet reported
\* completed or failed, however many jobs wait and however the jobs' steps
\* interleave.
C6_AtMostFiveInFlight == Cardinality(InFlightJobs) <= concurrency

\* The ceiling binds: five jobs in flight while another still waits.
C6_Witness ==
    /\ Cardinality(InFlightJobs) = concurrency
    /\ \E j \in JobIds : jobs[j].pc = "waiting"

\* The jobs whose `browser` is handle h.
Owners(h) == {j \in JobIds : jobs[j].browser = h}

\* C7: every live handle is the `browser` of exactly one job, which is in
\* flight; a job's `browser`, when set, is a live handle; no job has two live
\* handles of its own; so the live handles are no more than the jobs in
\* flight, which are at most 5.
C7_HandleOwnedByOneJob ==
    /\ \A h \in handles :
          /\ Cardinality(Owners(h)) = 1
          /\ \A j \in Owners(h) : InFlight(j)
    /\ \A j \in JobIds :
          /\ jobs[j].browser # NoHandle => jobs[j].browser \in handles
          /\ Cardinality({h \in handles : h[1] = j}) <= 1
          /\ jobs[j].launched - jobs[j].closes \in {0, 1}
    /\ Cardinality(handles) <= Cardinality(InFlightJobs)
    /\ Cardinality(handles) <= concurrency

\* Five jobs in flight, two of them each with its own live handle.
C7_Witness ==
    /\ Cardinality(InFlightJobs) = concurrency
    /\ Cardinality(handles) >= 2
    /\ \E j, k \in InFlightJobs :
          /\ j # k
          /\ jobs[j].browser \in handles /\ jobs[k].browser \in handles
          /\ jobs[j].browser # jobs[k].browser

----------------------------------------------------------------------------
(* Properties of the GPA / credits computation *)

RECURSIVE SumCredits(_)
SumCredits(gs) ==
    IF gs = <<>> THEN 0 ELSE gs[1].credits + SumCredits(Tail(gs))

RECURSIVE SumPoints(_)
SumPoints(gs) ==
    IF gs = <<>> THEN 0
    ELSE (IF gs[1].credits > 0
          THEN gs[1].credits * (IF gs[1].grade > 0 THEN gs[1].grade ELSE 0)
          ELSE 0)
         + SumPoints(Tail(gs))

\* The decimal numeral with two decimals of h hundredths, 0 <= h.
TwoDecimals(h) ==
    ToString(h \div 100) \o "." \o ToString((h % 100) \div 10) \o ToString(h % 10)

\* C10: after the computation totalCredits is the sum of the credits,
\* earnedPoints the sum of credit * max(gradePoint, 0) over the entries with
\* credit > 0, and the SGPA is "0.00" when totalCredits = 0 and otherwise the
\* two-decimal numeral of the hundredths nearest to earnedPoints /
\* totalCredits; credits [4,3] with grade points [9,7] give 7, 57 and "8.14".
C10_SgpaOfGrades ==
    gpc = "done" =>
      /\ totalCredits = SumCredits(grades)
      /\ earnedPoints = SumPoints(grades)
      /\ totalCredits = 0 => sgpa = "0.00"
      /\ totalCredits > 0 =>
            \E h \in 0 .. 1000 :
               /\ 2 * h * totalCredits <= 200 * earnedPoints + totalCredits
               /\ 200 * earnedPoints + totalCredits <= 2 * (h + 1) * totalCredits
               /\ sgpa = TwoDecimals(h)
      /\ grades = <<[credits |-> 4, grade |-> 9], [credits |-> 3, grade |-> 7]>> =>
            (totalCredits = 7 /\ earnedPoints = 57 /\ sgpa = "8.14")

\* Scenario A computed.
C10_Witness ==
    /\ gpc = "done"
    /\ grades = <<[credits |-> 4, grade |-> 9], [credits |-> 3, grade |-> 7]>>
    /\ sgpa = "8.14"

----------------------------------------------------------------------------
(* Properties of getGradeLetter *)

Letters == {"EX", "A", "B", "C", "D", "E", "R"}

\* The half-open interval [lo, hi) of grade points a letter stands for, in
\* units of 1 / den; the ends beyond the scale are open.
LetterRange(l, den) ==
    CASE l = "EX" -> [lo |-> 10 * den, hi |-> 12 * den]
      [] l = "A"  -> [lo |-> 9 * den, hi |-> 10 * den]
      [] l = "B"  -> [lo |-> 8 * den, hi |-> 9 * den]
      [] l = "C"  -> [lo |-> 7 * den, hi |-> 8 * den]
      [] l = "D"  -> [lo |-> 6 * den, hi |-> 7 * den]
      [] l = "E"  -> [lo |-> 5 * den, hi |-> 6 * den]
      [] l = "R"  -> [lo |-> 0 - 2 * den, hi |-> 5 * den]

\* C11: the letter returned for a grade point is the one letter whose range
\* [lower, upper) holds the point, lower bounds inclusive: >= 10 EX, [9,10) A,
\* [8,9) B, [7,8) C, [6,7) D, [5,6) E, below 5 R.
C11_LetterOfPoint ==
    letter # "" =>
      /\ letter \in Letters
      /\ \A l \in Letters :
            (LetterRange(l, point.den).lo <= point.num
               /\ point.num < LetterRange(l, point.den).hi) <=> l = letter

\* A lower bound itself: the point 9 mapped to A.
C11_Witness == point.num = 9 * point.den /\ letter = "A"

----------------------------------------------------------------------------
(* Properties of generateAttendancePdf *)

RECURSIVE SumAttended(_)
SumAttended(rs) ==
    IF rs = <<>> THEN 0 ELSE rs[1].attendedClasses + SumAttended(Tail(rs))

RECURSIVE SumClasses(_)
SumClasses(rs) ==
    IF rs = <<>> THEN 0 ELSE rs[1].totalClasses + SumClasses(Tail(rs))

\* The numeral with one decimal of t tenths.
OneDecimal(t) == ToString(t \div 10) \o "." \o ToString(t % 10)

\* str is attended / total * 100 to two decimals: the numeral of a number of
\* hundredths within half a hundredth of it.
IsPercentTo2(str, attended, total) ==
    \E h \in {(10000 * attended) \div total, (10000 * attended) \div total + 1} :
        /\ 2 * Abs(10000 * attended - h * total) <= total
        /\ str = TwoDecimals(h)

\* str is attended / total * 100 to one decimal.
IsPercentTo1(str, attended, total) ==
    \E t \in {(1000 * attended) \div total, (1000 * attended) \div total + 1} :
        /\ 2 * Abs(1000 * attended - t * total) <= total
        /\ str = OneDecimal(t)

\* C12: in the attendance document the overall percent is totalAttended /
\* totalClasses * 100 to two decimals over the sums of all entries, and "0.00"
\* when totalClasses is 0; each entry's percent is its attended / total * 100
\* to one decimal, and "0.0" when its total is 0; 45 of 60 gives "75.0" for
\* the entry and "75.00" overall.
C12_AttendancePercents ==
    apc = "done" =>
      /\ totalAttended = SumAttended(records)
      /\ totalClasses = SumClasses(records)
      /\ IF totalClasses = 0 THEN overallPercent = "0.00"
         ELSE IsPercentTo2(overallPercent, totalAttended, totalClasses)
      /\ Len(percents) = Len(records)
      /\ \A k \in 1 .. Len(records) :
            IF records[k].totalClasses = 0 THEN percents[k] = "0.0"
            ELSE IsPercentTo1(percents[k], records[k].attendedClasses,
                              records[k].totalClasses)
      /\ records = <<[attendedClasses |-> 45, totalClasses |-> 60]>>
            => percents = <<"75.0">> /\ overallPercent = "75.00"

\* Scenario B followed by an entry with no classes: 45 of 60, then 0 of 0.
C12_Witness ==
    /\ apc = "done"
    /\ records = <<[attendedClasses |-> 45, totalClasses |-> 60],
                   [attendedClasses |-> 0, totalClasses |-> 0]>>
    /\ percents = <<"75.0", "0.0">>
    /\ overallPercent = "75.00"

----------------------------------------------------------------------------
(* Properties of the title of generateResultPdf *)

\* The title "<year> SEMESTER-<sem> RESULTS".
ComposedTitle(year, sem) == year \o Semester \o sem \o Results

\* The title "<SEMESTERID> RESULTS".
FallbackTitle(id) == ToUpperCase(id) \o Results

\* semesterId yields a semester digit but no year code.
SemesterOnly == SemOfId(semesterId) # <<>> /\ YearOfId(semesterId) = <<>>

\* The entries whose subject code matches letters, optional separator, digit
\* 1-4.
MatchingEntries ==
    {k \in 1 .. Len(subjectCodes) : CodeMatch(subjectCodes[k]) # 0}

\* C13 as stated: with a semester digit and no year code in semesterId, a
\* matching subject code at any position makes the title "E<digit of that
\* code> SEMESTER-<N> RESULTS" and not the fallback.
C13_YearFromAnyEntry ==
    (tpc = "done" /\ SemesterOnly /\ MatchingEntries # {}) =>
        /\ \E k \in MatchingEntries :
              titleText = ComposedTitle(<<"E", subjectCodes[k][CodeMatch(subjectCodes[k])]>>,
                                        SemOfId(semesterId))
        /\ titleText # FallbackTitle(semesterId)

\* C13 (amended): with a semester digit and no year code in semesterId, the
\* year is inferred from the subject code of the first grade entry only: when
\* that code matches, the title is "E<its digit> SEMESTER-<N> RESULTS"; when
\* it does not, the title is the fallback "<SEMESTERID> RESULTS" whatever the
\* codes of the later entries.
C13_YearFromFirstEntry ==
    (tpc = "done" /\ SemesterOnly) =>
        IF 1 \in MatchingEntries
        THEN titleText = ComposedTitle(<<"E", subjectCodes[1][CodeMatch(subjectCodes[1])]>>,
                                       SemOfId(semesterId))
        ELSE titleText = FallbackTitle(semesterId)

\* "S-2" with the codes "X5" and "CS21": the second code matches, the first
\* does not, and the title is the fallback.
C13_Witness ==
    /\ tpc = "done"
    /\ semesterId = <<"S", "-", "2">>
    /\ subjectCodes = <<<<"X", "5">>, <<"C", "S", "2", "1">>>>
    /\ titleText = <<"S", "-", "2">> \o Results

----------------------------------------------------------------------------
(* Properties of the EMAIL branch *)

\* The default template applied to the job's subject and "<p>" + body + "</p>".
DefaultHtml(r) ==
    emailTemplate(r.subject,
                  "<p>" \o (IF r.body = Absent THEN "undefined" ELSE r.body[1]) \o "</p>")

\* C14: an EMAIL job makes one sendMail call; its message has the job's html
\* when a (non-empty) html is supplied and otherwise the default template of
\* the subject and "<p>" + body + "</p>", has no attachment, and goes to the
\* job's recipient under the job's subject; scenario C: html omitted and body
\* "Hello" give the template wrapping "<p>Hello</p>".
C14_EmailMessage ==
    \A j \in JobIds :
        (jobs[j].type = "EMAIL" /\ jobs[j].pc # "waiting") =>
            /\ jobs[j].sendCalls = 1 /\ jobs[j].sent <= 1
            /\ jobs[j].mail.to = jobs[j].recipient
            /\ jobs[j].mail.subject = jobs[j].subject
            /\ jobs[j].mail.attachments = 0 /\ ~jobs[j].attached
            /\ jobs[j].mail.html =
                  IF jobs[j].html \notin {Absent, <<"">>}
                  THEN jobs[j].html[1] ELSE DefaultHtml(jobs[j])
            /\ (jobs[j].html = Absent /\ jobs[j].body = <<"Hello">>) =>
                  jobs[j].mail.html = emailTemplate(jobs[j].subject, "<p>Hello</p>")

\* Scenario C sent and acknowledged, to the second recipient.
C14_Witness ==
    \E j \in JobIds :
        /\ jobs[j].type = "EMAIL" /\ jobs[j].pc = "completed" /\ jobs[j].sent = 1
        /\ jobs[j].html = Absent /\ jobs[j].body = <<"Hello">>
        /\ jobs[j].recipient = "parent@example.org"
        /\ jobs[j].mail.to = "parent@example.org"
        /\ jobs[j].mail.html = emailTemplate(jobs[j].subject, "<p>Hello</p>")

----------------------------------------------------------------------------
(* Bounded calls and termination *)

\* C15: within the processing of a job launch is attempted at most 3 times,
\* the render sequence (newPage, setContent, pdf) is started at most once and
\* sendMail is called at most once; and when every pending call returns or
\* raises, every dequeued job is eventually reported completed or failed.
C15_BoundedCallsAndTermination ==
    /\ [](\A j \in JobIds :
             /\ jobs[j].attempts <= 3
             /\ jobs[j].renders <= 1
             /\ jobs[j].sendCalls <= 1)
    /\ \A j \in 1 .. NumJobs :
          InFlight(j) ~> (jobs[j].pc \in {"completed", "failed"})

\* Three launch attempts, one render sequence and one sendMail call, which
\* raised: the job is reported failed.
C15_Witness ==
    \E j \in JobIds :
        /\ jobs[j].pc = "failed" /\ jobs[j].err = SendError
        /\ jobs[j].attempts = 3 /\ jobs[j].renders = 1 /\ jobs[j].sendCalls = 1

----------------------------------------------------------------------------
(* Release before send *)

\* The live handles launched by job j.
HandlesOf(j) == {h \in handles : h[1] = j}

\* C16: in every state in which a report job's sendMail call is pending or
\* has settled, the job holds no live browser handle: its one launched
\* browser was closed, and the close had resolved, before sendMail was
\* called; so a job whose send failed has no unreleased handle.
C16_ReleasedBeforeSend ==
    \A j \in JobIds :
        (jobs[j].type \in ReportTypes /\ jobs[j].sendCalls > 0) =>
            /\ jobs[j].browser = NoHandle
            /\ HandlesOf(j) = {}
            /\ jobs[j].launched = 1
            /\ jobs[j].closes = 1
            /\ jobs[j].closeFails = 0

\* A report job whose send is pending while another job's browser is open,
\* and none of its own.
C16_Witness ==
    \E j \in JobIds :
        /\ jobs[j].type \in ReportTypes
        /\ jobs[j].pc = "send"
        /\ HandlesOf(j) = {}
        /\ handles # {}

----------------------------------------------------------------------------
(* The error of an exhausted launch *)

\* All maxAttempts >= 1 launch attempts of the job failed on a transient
\* error.
Exhausted(r) == r.retries >= 1 /\ r.transientFails = r.retries

\* C17 as stated: an exhausted launch fails with a distinct error, not with
\* the underlying error of the last attempt, and the job is reported failed
\* with that distinct error.
C17_ExhaustionRaisesDistinctError ==
    \A j \in JobIds :
        Exhausted(jobs[j]) =>
            /\ Settled(jobs[j])
            /\ jobs[j].err # jobs[j].launchErr
            /\ jobs[j].err \notin LaunchErrors

\* C17 (amended): an exhausted launch fails with the transient error of its
\* last attempt itself, rethrown by the catch; no browser was launched, none
\* is closed, nothing is sent, and that same error is the one the job is
\* reported failed with.
C17_ExhaustionRethrowsLastError ==
    \A j \in JobIds :
        Exhausted(jobs[j]) =>
            /\ Settled(jobs[j])
            /\ jobs[j].err = jobs[j].launchErr
            /\ jobs[j].err \in LaunchErrors /\ IsTransient(jobs[j].err)
            /\ jobs[j].err # FailedToLaunch
            /\ jobs[j].launched = 0 /\ jobs[j].closes = 0 /\ jobs[j].sendCalls = 0

\* The default three attempts used up, the last one on an error whose
\* message mentions ETXTBSY: the job is reported failed with that error.
C17_Witness ==
    \E j \in JobIds :
        /\ jobs[j].retries = DefaultRetries
        /\ jobs[j].transientFails = DefaultRetries
        /\ jobs[j].pc = "failed"
        /\ jobs[j].err = BusyMessageError

----------------------------------------------------------------------------
(* Properties of getExecutablePath *)

\* The candidates in order: the override when it is set, then the list.
Candidates == (IF Truthy(envPath) THEN <<envPath[1]>> ELSE <<>>) \o paths

\* The listed paths that exist, by position.
ExistingListed == {k \in 1 .. Len(paths) : paths[k] \in existing}

NonProduction == nodeEnv # <<"production">>

\* C18 as stated: outside production the call returns only a path that
\* exists, the first existing candidate among the override and the list, and
\* throws NoBrowserFound exactly when no candidate exists.
C18_ReturnsExistingPath ==
    (NonProduction /\ xpc \in {"returned", "threw"}) =>
        LET ks == {k \in 1 .. Len(Candidates) : Candidates[k] \in existing}
        IN  /\ xpc = "returned" =>
                /\ execPath \in existing
                /\ \E k \in ks : Candidates[k] = execPath /\ \A q \in ks : k <= q
            /\ xpc = "threw" <=> ks = {}
            /\ xpc = "threw" => execErr = NoBrowserFound

\* C18 (amended): outside production the call returns the override whenever
\* it is set to a non-empty value, whether or not that path exists; otherwise
\* it returns the first listed path that exists, and throws NoBrowserFound
\* exactly when the override is unset or empty and no listed path exists.
C18_OverrideUncheckedElseFirstExisting ==
    (NonProduction /\ xpc \in {"returned", "threw"}) =>
        IF Truthy(envPath)
        THEN xpc = "returned" /\ execPath = envPath[1]
        ELSE /\ xpc = "returned" =>
                \E k \in ExistingListed :
                    execPath = paths[k] /\ \A q \in ExistingListed : k <= q
             /\ xpc = "threw" <=> ExistingListed = {}
             /\ xpc = "threw" => execErr = NoBrowserFound

\* The override names a path that does not exist while a listed path does:
\* the override is returned.
C18_Witness ==
    /\ nodeEnv = <<"development">>
    /\ envPath = <<CustomPath>>
    /\ existing = {paths[4]}
    /\ xpc = "returned"
    /\ execPath = CustomPath

----------------------------------------------------------------------------
(* Unhandled job types; a rejected close *)

HandledTypes == {"EMAIL", "RESULTS", "ATTENDANCE_REPORT"}

\* C19: a job whose type is none of EMAIL, RESULTS, ATTENDANCE_REPORT (the
\* kind name RESULT_REPORT among them) makes no sendMail call and no launch
\* attempt, raises no error, is never reported failed, and once dequeued is
\* acknowledged as completed.
C19_UnhandledTypeCompletesSilently ==
    /\ [](\A j \in JobIds :
             jobs[j].type \notin HandledTypes =>
                /\ jobs[j].pc \in {"waiting", "returned", "completed"}
                /\ jobs[j].sendCalls = 0 /\ jobs[j].sent = 0
                /\ jobs[j].mail = NoMail
                /\ jobs[j].attempts = 0 /\ jobs[j].launched = 0
                /\ jobs[j].err = NoError)
    /\ \A j \in 1 .. NumJobs :
          (jobs[j].type \notin HandledTypes) ~> (jobs[j].pc = "completed")

\* A RESULT_REPORT job acknowledged as completed, nothing sent.
C19_Witness ==
    \E j \in JobIds :
        /\ jobs[j].type = "RESULT_REPORT"
        /\ jobs[j].pc = "completed"
        /\ jobs[j].sendCalls = 0
        /\ jobs[j].attempts = 0

\* C20: when browser.close() raises, the generator raises the close error:
\* after a launch and a render that succeeded no PDF is returned, and after a
\* render failure the close error replaces the render error; either way no
\* sendMail call is made and the job is reported failed with the close error.
C20_CloseErrorRaised ==
    \A j \in JobIds :
        jobs[j].closeFails > 0 =>
            /\ jobs[j].launched = 1 /\ jobs[j].renders = 1
            /\ Settled(jobs[j])
            /\ jobs[j].err = CloseError
            /\ jobs[j].renderErr # NoError => jobs[j].err # jobs[j].renderErr
            /\ jobs[j].sendCalls = 0 /\ jobs[j].sent = 0
            /\ jobs[j].mail = NoMail

\* Launch and render succeeded, close raised: the job is reported failed with
\* the close error.
C20_Witness ==
    \E j \in JobIds :
        /\ jobs[j].launched = 1
        /\ jobs[j].renderErr = NoError
        /\ jobs[j].closeFails = 1
        /\ jobs[j].pc = "failed"
        /\ jobs[j].err = CloseError
        /\ jobs[j].sent = 0

----------------------------------------------------------------------------
(* baseLaunchBrowser returns a handle or raises *)

\* baseLaunchBrowser has not settled yet.
InLaunch(r) == r.pc \in {"waiting", "resolve", "launch", "delay"}

\* C21: with maxAttempts >= 1, whatever the launch outcomes, baseLaunchBrowser
\* settles either by returning a live handle or by raising (the error of
\* getExecutablePath or of a launch attempt), so the generator's "Failed to
\* launch browser" is never thrown; it is thrown only with maxAttempts <= 0,
\* after zero launch attempts, and then always unless getExecutablePath threw.
C21_HandleOrRaise ==
    \A j \in JobIds :
        LET r == jobs[j]
        IN  /\ (r.retries >= 1 /\ ~InLaunch(r)) =>
                 /\ r.err # FailedToLaunch
                 /\ \/ r.launched = 1
                    \/ /\ r.launched = 0 /\ Settled(r)
                       /\ r.err \in LaunchErrors \cup {NoBrowserFound}
                 /\ r.pc = "newPage" =>
                       (r.browser # NoHandle /\ r.browser \in handles)
            /\ r.err = FailedToLaunch =>
                 /\ r.retries <= 0
                 /\ r.attempts = 0 /\ r.launched = 0 /\ r.closes = 0
                 /\ Settled(r) /\ r.sendCalls = 0
            /\ (r.retries <= 0 /\ ~InLaunch(r)) =>
                 /\ r.attempts = 0 /\ r.launched = 0
                 /\ r.err \in {FailedToLaunch, NoBrowserFound}

\* A launch given a negative maxAttempts: no attempt, and the job is reported
\* failed with "Failed to launch browser".
C21_Witness ==
    \E j \in JobIds :
        /\ jobs[j].retries < 0
        /\ jobs[j].attempts = 0
        /\ jobs[j].pc = "failed"
        /\ jobs[j].err = FailedToLaunch

====
